---------------------------- MODULE Spec2Model ----------------------------
(***************************************************************************)
(* A model of the agents of src/agent.py:                                  *)
(*   - HamiltonianCycleAgent: _get_cycle_square and move                   *)
(*   - BreadthFirstSearchAgent: _get_neighbors, _get_shortest_path, move   *)
(*   - DeepQLearningAgent: move, train_agent, update_target_net,           *)
(*     save_model, load_model                                              *)
(* Each agent has its own specification (SpecHam, SpecBfs, SpecDqn,        *)
(* SpecCkpt); the variables of the other agents stay at their idle values. *)
(***************************************************************************)
EXTENDS Integers, Sequences, FiniteSets, TLC

VARIABLES
    \* ---- shared by the planning agents
    board_size,      \* Agent._board_size
    values,          \* the caller's cell-value mapping (argument of move)
    board,           \* frame 0 of the board of the call in progress
    legal_moves,     \* the legality mask passed to move
    perr,            \* the exception a call on the agent raised, or "none"
    \* ---- HamiltonianCycleAgent
    hpc,             \* position: "build", "ready", "search", "returned"
    cycle,           \* self._cycle, indexed 0 .. (board_size-2)^2 - 1
    index,           \* the local index of _get_cycle_square / of move
    sp,              \* the local sp of _get_cycle_square
    curr_head,       \* the local curr_head of move
    haction,         \* the value move returned
    \* ---- BreadthFirstSearchAgent
    bpc,             \* position: "loop", "search", "recon", "pathret", "returned"
    board_main,      \* the batch passed to move (frame 0 of each row)
    bi,              \* the loop variable i of move (rows done so far)
    a,               \* the array a of move
    paths,           \* the path _get_shortest_path returned for each row done
    points_to_search,\* locals of _get_shortest_path
    distances,
    visited,
    found,
    path,
    curr_point,
    added,           \* history: how often each cell was appended to
                     \* points_to_search during the call in progress
    popped,          \* history: the number of popleft of that call
    \* ---- DeepQLearningAgent
    use_target_net,  \* Agent._use_target_net
    model,           \* the parameters of the object self._model
    target_net,      \* the parameters of the object self._target_net
    files,           \* the checkpoint files on disk: file name -> parameters
    dcall,           \* the last call on the agent: op, arg, before, ret
    synced,          \* history: model at the last update_target_net
    stale,           \* history: load_model has run since then
    saved,           \* history: the parameters at the last save_model, by
                     \* path and iteration number
    \* ---- PolicyGradientAgent / AdvantageActorCriticAgent: train_agent
    npc,             \* position: "sampled", "normalized"
    nagent,          \* the class of the agent: "pg" or "a2c"
    normalize_rewards, \* the argument of train_agent
    rewards,         \* the rewards sampled from the buffer
    rnorm,           \* the local rewards / r after the normalisation
    \* ---- DeepQLearningAgent: a trainer thread and a synchroniser thread
    tr,              \* the train_agent call in progress: position and locals
    up,              \* the update_target_net call in progress: position, k
    overlap,         \* history: update_target_net ran inside a train_agent
    done_models,     \* history: the online parameters between whole steps
    \* ---- a planning agent whose move is called by two threads
    pagent,          \* the class of the agent: "ham" or "bfs"
    pcalls,          \* thread -> the move call it makes: position, board
                     \* argument, returned action, and history fields
    frames,          \* frame -> the locals of the move call running in it
    \* ---- HamiltonianCycleAgent._get_cycle: the backtracking search, on
    \* board_size and cycle
    kpc,             \* position: "call", "loop", "return", "done"
    self_index,      \* self._index
    cycle_set,       \* self._cycle_set
    stack,           \* the frames of _hamil_util in progress: neighbors, and
                     \* k, the next element of the for loop
    kret,            \* the value the last finished _hamil_util returned
    backtracks,      \* history: the number of cells removed at line 720
    \* ---- a game driven by HamiltonianCycleAgent.move
    ghead,           \* the cell of the snake's head
    gbody,           \* the cells of the body, the one next to the head first
    gprev,           \* history: the head's cell before the last move
    gstart,          \* history: the head's cell at the start
    gmoves,          \* history: the number of moves made
    gvisited         \* history: the cells the head has been on

planVars == <<board_size, values, board, legal_moves, perr>>
hamVars == <<hpc, cycle, index, sp, curr_head, haction>>
hamVarsButPc == <<cycle, index, sp, curr_head, haction>>
bfsVars == <<bpc, board_main, bi, a, paths, points_to_search, distances,
             visited, found, path, curr_point, added, popped>>
bfsVarsButPc == <<board_main, bi, a, paths, points_to_search, distances,
                  visited, found, path, curr_point, added, popped>>
dqnVars == <<use_target_net, model, target_net, files, dcall, synced, stale,
             saved>>
normVars == <<npc, nagent, normalize_rewards, rewards, rnorm>>
concVars == <<tr, up, overlap, done_models>>
parVars == <<pagent, pcalls, frames>>
btVars == <<kpc, self_index, cycle_set, stack, kret, backtracks>>
gameVars == <<ghead, gbody, gprev, gstart, gmoves, gvisited>>
extraVars == <<normVars, concVars, parVars, btVars, gameVars>>
notNormVars == <<planVars, hamVars, bfsVars, dqnVars, concVars, parVars,
                 btVars, gameVars>>
notConcVars == <<planVars, hamVars, bfsVars, normVars, parVars, btVars,
                 gameVars>>
notParVars == <<planVars, hamVars, bfsVars, dqnVars, normVars, concVars,
                btVars, gameVars>>
vars == <<planVars, hamVars, bfsVars, dqnVars, extraVars>>
notHamVars == <<bfsVars, dqnVars, extraVars>>
notBfsVars == <<hamVars, dqnVars, extraVars>>
notDqnVars == <<planVars, hamVars, bfsVars, extraVars>>

(***************************************************************************)
(* Bounds                                                                  *)
(***************************************************************************)
\* Hamiltonian boards have side 4, 6, .., 2*MaxHalfSize
MaxHalfSize == 5

\* side of the boards given to the breadth-first agent (border included)
BfsBoardSize == 5

\* the snake's body has at most MaxBody cells behind the head
MaxBody == 3

\* rows of the largest batch given to BreadthFirstSearchAgent.move
MaxBatch == 2

\* the network's parameters and outputs range over -1 .. MaxQ
MaxQ == 1

\* the network is evaluated on the board states 0 .. MaxState
MaxState == 1

\* rewards in the buffer range over -MaxReward .. MaxReward
MaxReward == 2

\* the buffer sampled by the policy-gradient agents holds 1 .. MaxBuffer
\* transitions
MaxBuffer == 3

\* checkpoints are saved under the iteration numbers None, 0 .. MaxIter
MaxIter == 1

(***************************************************************************)
(* Agent: coordinates (shared by all agents)                               *)
(***************************************************************************)
PointToRowCol(bs, point) == <<point \div bs, point % bs>>

RowColToPoint(bs, row, col) == row * bs + col

Points(bs) == 0 .. (bs * bs - 1)

IsInterior(bs, point) ==
    /\ 1 <= point \div bs /\ point \div bs <= bs - 2
    /\ 1 <= point % bs /\ point % bs <= bs - 2

InteriorPoints(bs) == {p \in Points(bs) : IsInterior(bs, p)}

RECURSIVE SumSet(_)
SumSet(S) ==
    IF S = {} THEN 0
    ELSE LET x == CHOOSE y \in S : TRUE
         IN  x + SumSet(S \ {x})

\* (self._board_grid * (board == code)).sum()
GridSum(brd, code) == SumSet({p \in DOMAIN brd : brd[p] = code})

Abs(x) == IF x < 0 THEN -x ELSE x

ManhattanAdjacent(bs, p, q) ==
    Abs((p \div bs) - (q \div bs)) + Abs((p % bs) - (q % bs)) = 1

(***************************************************************************)
(* The caller's cell-value mappings.  StandardValues is the mapping of the *)
(* snake environment; SwappedValues gives the free cell another code than  *)
(* 0, which the agents must treat as opaque input.                         *)
(***************************************************************************)
StandardValues == [board |-> 0, snake |-> 1, head |-> 2, food |-> 3]

SwappedValues == [board |-> 1, snake |-> 0, head |-> 3, food |-> 2]

ValueMaps == {StandardValues, SwappedValues}

\* what the caller may put on a cell other than the head
CellKinds == {"board", "snake", "food"}

(***************************************************************************)
(* HamiltonianCycleAgent._get_cycle_square: one iteration of the while     *)
(* loop computes the next sp from index and the current sp.                *)
(***************************************************************************)
\* variant: the guard "index != 1" of the leftward branch is dropped
CycleNextSpNoIndexGuard(bs, idx, s) ==
    LET row == s \div bs
        col == s % bs
    IN  IF idx = 0 THEN s
        ELSE IF row = 2 /\ col = bs - 2 THEN (row - 1) * bs + col
        ELSE IF row = 1 THEN row * bs + (col - 1)
        ELSE IF col % 2 = 1
             THEN LET d == (row + 1) * bs + col
                  IN  IF d \div bs = bs - 1
                      THEN ((d \div bs) - 1) * bs + ((d % bs) + 1)
                      ELSE d
             ELSE LET u == (row - 1) * bs + col
                  IN  IF u \div bs = 1
                      THEN ((u \div bs) + 1) * bs + ((u % bs) + 1)
                      ELSE u

CycleNextSp(bs, idx, s) ==
    LET row == s \div bs
        col == s % bs
    IN  IF idx = 0 THEN s
        ELSE IF row = 2 /\ col = bs - 2 THEN (row - 1) * bs + col
        ELSE IF idx # 1 /\ row = 1 THEN row * bs + (col - 1)
        ELSE IF col % 2 = 1
             THEN LET d == (row + 1) * bs + col
                  IN  IF d \div bs = bs - 1
                      THEN ((d \div bs) - 1) * bs + ((d % bs) + 1)
                      ELSE d
             ELSE LET u == (row - 1) * bs + col
                  IN  IF u \div bs = 1
                      THEN ((u \div bs) + 1) * bs + ((u % bs) + 1)
                      ELSE u

CyLen(bs) == (bs - 2) * (bs - 2)

\* np.zeros(((board_size-2)**2,))
ZeroCycle(bs) == [k \in 0 .. (CyLen(bs) - 1) |-> 0]

\* the board a caller passes to HamiltonianCycleAgent.move: a border of
\* body cells, the head on an interior cell, and any code on one other
\* interior cell
HamBoard(bs, vals, head, other, code) ==
    [p \in Points(bs) |->
        IF p = head THEN vals.head
        ELSE IF p = other THEN code
        ELSE IF IsInterior(bs, p) THEN vals.board
        ELSE vals.snake]

NoBoard == <<>>

(***************************************************************************)
(* HamiltonianCycleAgent.move: the table from the displacement to the      *)
(* action                                                                  *)
(***************************************************************************)
DirectionAction(dx, dy) ==
    IF dx = 1 /\ dy = 0 THEN 0
    ELSE IF dx = 0 /\ dy = 1 THEN 1
    ELSE IF dx = -1 /\ dy = 0 THEN 2
    ELSE IF dx = 0 /\ dy = -1 THEN 3
    ELSE -1

\* variant: the successor is taken two places ahead in the cycle
HamNextHeadSkip(cyc, cy_len, idx) == cyc[(idx + 2) % cy_len]

HamNextHead(cyc, cy_len, idx) == cyc[(idx + 1) % cy_len]

HamPrevHead(cyc, cy_len, idx) == cyc[(idx - 1) % cy_len]

\* lines 785-809, once the search loop has stopped at idx
HamMoveResult(bs, cyc, brd, head, idx) ==
    LET cy_len == CyLen(bs)
        prev_head == HamPrevHead(cyc, cy_len, idx)
        next_head == HamNextHead(cyc, cy_len, idx)
    IN  IF brd[prev_head] = 0
        THEN IF next_head > head THEN 3 ELSE 1
        ELSE LET c == PointToRowCol(bs, head)
                 n == PointToRowCol(bs, next_head)
                 dx == n[2] - c[2]
                 dy == -n[1] + c[1]
             IN  DirectionAction(dx, dy)

(***************************************************************************)
(* The legality masks given to the planning agents: one entry for each of  *)
(* the actions 0 .. 3; every action legal, or one action illegal           *)
(***************************************************************************)
PlannerActions == 0 .. 3

AllLegal == [c \in PlannerActions |-> 1]

PlannerMasks ==
    {AllLegal} \cup
    {[c \in PlannerActions |-> IF c = k THEN 0 ELSE 1] : k \in PlannerActions}

(***************************************************************************)
(* The call self.move(board, values) of get_action_proba (lines 828 and    *)
(* 1077) against the signature move(self, board, legal_moves, values): a   *)
(* call that leaves a positional parameter without argument raises         *)
(* TypeError before the body of move runs                                  *)
(***************************************************************************)
PlannerMoveParams == <<"board", "legal_moves", "values">>

ProbaCallArgs == <<"board", "values">>

PyCall(params, args) ==
    IF Len(args) # Len(params) THEN "TypeError" ELSE "ok"

(***************************************************************************)
(* Idle values of each agent's variables, for the specifications of the    *)
(* other agents                                                            *)
(***************************************************************************)
HamIdle ==
    /\ hpc = "idle"
    /\ cycle = <<>>
    /\ index = 0
    /\ sp = 0
    /\ curr_head = 0
    /\ haction = -1

BfsIdle ==
    /\ bpc = "idle"
    /\ board_main = <<>>
    /\ bi = 0
    /\ a = <<>>
    /\ paths = <<>>
    /\ points_to_search = <<>>
    /\ distances = <<>>
    /\ visited = <<>>
    /\ found = FALSE
    /\ path = <<>>
    /\ curr_point = 0
    /\ added = <<>>
    /\ popped = 0

NoNet == <<>>

NoCall == [op |-> "none", arg |-> <<>>, before |-> <<>>, ret |-> <<>>]

DqnIdle ==
    /\ use_target_net = FALSE
    /\ model = NoNet
    /\ target_net = NoNet
    /\ files = <<>>
    /\ dcall = NoCall
    /\ synced = NoNet
    /\ stale = FALSE
    /\ saved = <<>>

PlanIdle ==
    /\ board_size = 0
    /\ values = StandardValues
    /\ board = NoBoard
    /\ legal_moves = <<>>
    /\ perr = "none"

NormIdle ==
    /\ npc = "idle"
    /\ nagent = "none"
    /\ normalize_rewards = FALSE
    /\ rewards = <<>>
    /\ rnorm = <<>>

NoTrain == [pc |-> "idle", k |-> 0, disc |-> <<>>, target |-> <<>>,
            new |-> <<>>]

NoSync == [pc |-> "idle", k |-> 0]

ConcIdle ==
    /\ tr = NoTrain
    /\ up = NoSync
    /\ overlap = FALSE
    /\ done_models = {}

\* the threads that call move on one planning agent
Threads == {1, 2}

NoLocals == [index |-> 0, curr_head |-> 0, q |-> <<>>, dist |-> <<>>,
             vis |-> <<>>, found |-> FALSE, path |-> <<>>, curr |-> 0]

NoPCall == [pc |-> "idle", brd |-> NoBoard, brd0 |-> NoBoard, ret |-> -1,
            alone |-> -1, overlapped |-> FALSE]

ParIdle ==
    /\ pagent = "none"
    /\ pcalls = <<>>
    /\ frames = <<>>

BtIdle ==
    /\ kpc = "idle"
    /\ self_index = 0
    /\ cycle_set = {}
    /\ stack = <<>>
    /\ kret = FALSE
    /\ backtracks = 0

GameIdle ==
    /\ ghead = 0
    /\ gbody = <<>>
    /\ gprev = 0
    /\ gstart = 0
    /\ gmoves = 0
    /\ gvisited = {}

ExtraIdle ==
    /\ NormIdle
    /\ ConcIdle
    /\ ParIdle
    /\ BtIdle
    /\ GameIdle

(***************************************************************************)
(* HamiltonianCycleAgent: actions                                          *)
(***************************************************************************)
HamSizes == {2 * h : h \in 2 .. MaxHalfSize}

InitHam ==
    /\ board_size \in HamSizes
    /\ values = StandardValues
    /\ board = NoBoard
    /\ legal_moves = <<>>
    /\ perr = "none"
    /\ hpc = "build"
    /\ cycle = ZeroCycle(board_size)
    /\ index = 0
    /\ sp = 1 * board_size + 1
    /\ curr_head = 0
    /\ haction = -1
    /\ BfsIdle
    /\ DqnIdle
    /\ ExtraIdle

\* one iteration of the while loop of _get_cycle_square; the constructor
\* returns when the loop ends
CycleSquareStep ==
    /\ hpc = "build"
    /\ index < CyLen(board_size)
    /\ LET s == CycleNextSp(board_size, index, sp)
       IN  /\ sp' = s
           /\ cycle' = [cycle EXCEPT ![index] = s]
    /\ index' = index + 1
    /\ hpc' = IF index + 1 < CyLen(board_size) THEN "build" ELSE "ready"
    /\ UNCHANGED <<planVars, curr_head, haction, notHamVars>>

\* move is called: lines 777-780.  A behaviour follows one call: move
\* writes no attribute of the agent, so every call starts from this state.
HamMoveCall ==
    /\ hpc = "ready"
    /\ \E vals \in ValueMaps, head \in InteriorPoints(board_size),
          other \in InteriorPoints(board_size), kind \in CellKinds :
          /\ other # head
          /\ other \in {HamPrevHead(cycle, CyLen(board_size), k) :
                           k \in {j \in DOMAIN cycle : cycle[j] = head}}
          /\ values' = vals
          /\ board' = HamBoard(board_size, vals, head, other, vals[kind])
          /\ curr_head' = head
    /\ legal_moves' \in PlannerMasks
    /\ index' = 0
    /\ hpc' = "search"
    /\ UNCHANGED <<board_size, perr, cycle, sp, haction, notHamVars>>

\* move is called with a board whose frame 0 has no head cell, or has the
\* head on a border cell: lines 777-780
HamMoveCallOffCycle ==
    /\ hpc = "ready"
    /\ \E vals \in ValueMaps,
          heads \in {{}} \cup {{p} : p \in Points(board_size)
                                        \ InteriorPoints(board_size)} :
          \E brd \in {[p \in Points(board_size) |->
                          IF p \in heads THEN vals.head
                          ELSE IF IsInterior(board_size, p) THEN vals.board
                          ELSE vals.snake]} :
              /\ values' = vals
              /\ board' = brd
              /\ curr_head' = GridSum(brd, vals.head)
    /\ legal_moves' = AllLegal
    /\ index' = 0
    /\ hpc' = "search"
    /\ UNCHANGED <<board_size, perr, cycle, sp, haction, notHamVars>>

\* get_action_proba, lines 826-831: line 828 calls self.move(board, values)
HamGetActionProba ==
    /\ hpc = "ready"
    /\ PyCall(PlannerMoveParams, ProbaCallArgs) = "TypeError"
    /\ perr' = "TypeError"
    /\ hpc' = "raised"
    /\ UNCHANGED <<board_size, values, board, legal_moves, hamVarsButPc,
                   notHamVars>>

\* one iteration of the while(1) loop of move that does not break
HamSearchStep ==
    /\ hpc = "search"
    /\ cycle[index] # curr_head
    /\ index' = (index + 1) % CyLen(board_size)
    /\ UNCHANGED <<planVars, hpc, cycle, sp, curr_head, haction, notHamVars>>

\* the loop breaks and move returns
HamMoveReturn ==
    /\ hpc = "search"
    /\ cycle[index] = curr_head
    /\ haction' = HamMoveResult(board_size, cycle, board, curr_head, index)
    /\ hpc' = "returned"
    /\ UNCHANGED <<planVars, cycle, index, sp, curr_head, notHamVars>>

NextHam ==
    \/ CycleSquareStep
    \/ HamMoveCall
    \/ HamMoveCallOffCycle
    \/ HamGetActionProba
    \/ HamSearchStep
    \/ HamMoveReturn

SpecHam == InitHam /\ [][NextHam]_vars

\* the thread that runs the constructor and move keeps running
SpecHamFair == InitHam /\ [][NextHam]_vars /\ WF_vars(NextHam)

(***************************************************************************)
(* C1: once _get_cycle_square has returned, the cycle has (board_size-2)^2 *)
(* entries, holds every interior cell exactly once and no border cell, and *)
(* consecutive entries, the last and the first included, are               *)
(* Manhattan-adjacent.                                                     *)
(***************************************************************************)
CycleIsHamiltonian ==
    hpc # "build" =>
        LET n == (board_size - 2) * (board_size - 2)
        IN  /\ DOMAIN cycle = 0 .. (n - 1)
            /\ Cardinality(DOMAIN cycle) = n
            /\ \A k \in DOMAIN cycle : IsInterior(board_size, cycle[k])
            \* n entries whose values are the n interior cells: each cell
            \* occurs exactly once
            /\ {cycle[k] : k \in DOMAIN cycle} = InteriorPoints(board_size)
            /\ Cardinality({cycle[k] : k \in DOMAIN cycle}) = n
            /\ \A k \in DOMAIN cycle :
                  ManhattanAdjacent(board_size, cycle[k], cycle[(k + 1) % n])

CycleBuiltOnBoard10 ==
    /\ hpc = "ready"
    /\ board_size = 10
    /\ index = 64

(***************************************************************************)
(* C6: with the head on any cell of the cycle, and any code on the         *)
(* predecessor cell, move returns one of the actions 0, 1, 2, 3, never -1. *)
(***************************************************************************)
HamMoveReturnsTableAction ==
    hpc = "returned" => haction \in {0, 1, 2, 3}

HamMoveOnCycleWithBodyBehind ==
    /\ hpc = "returned"
    /\ board[HamPrevHead(cycle, CyLen(board_size), index)] = values.snake
    /\ values.snake # 0
    /\ haction = 2

(***************************************************************************)
(* BreadthFirstSearchAgent: helpers                                        *)
(***************************************************************************)
\* np.inf in the distance field
Inf == -1

\* x > y on the distance field's values
DistGt(x, y) ==
    IF y = Inf THEN FALSE
    ELSE IF x = Inf THEN TRUE
    ELSE x > y

\* 1 + x on the distance field's values
DistPlus1(x) == IF x = Inf THEN Inf ELSE x + 1

\* the four candidate cells, in the order of the list of deltas
NeighborCandidates(bs, point) ==
    LET rc == PointToRowCol(bs, point)
    IN  << (rc[1] - 1) * bs + rc[2],
           (rc[1] + 1) * bs + rc[2],
           rc[1] * bs + (rc[2] + 1),
           rc[1] * bs + (rc[2] - 1) >>

\* variant: body cells are accepted as neighbours too
BfsGetNeighborsThroughBody(bs, vals, brd, point) ==
    LET ok(q) == brd[q] \in {vals.board, vals.food, vals.head, vals.snake}
                 /\ IsInterior(bs, q)
    IN  SelectSeq(NeighborCandidates(bs, point), ok)

\* BreadthFirstSearchAgent._get_neighbors
BfsGetNeighbors(bs, vals, brd, point) ==
    LET ok(q) == brd[q] \in {vals.board, vals.food, vals.head}
    IN  SelectSeq(NeighborCandidates(bs, point), ok)

\* the for loop over the neighbours n of curr, from its k-th element on;
\* st holds the locals q (points_to_search), dist, vis and found
RECURSIVE BfsVisitNeighbors(_, _, _, _, _, _)
BfsVisitNeighbors(vals, brd, curr, n, k, st0) ==
    IF k > Len(n) THEN st0
    ELSE CHOOSE res \in
        {LET p == n[k]
             nd == DistPlus1(st.dist[curr])
             d1 == IF DistGt(st.dist[p], nd)
                   THEN [st.dist EXCEPT ![p] = nd]
                   ELSE st.dist
         IN  IF brd[p] = vals.food
             THEN [st EXCEPT !.dist = d1, !.found = TRUE]
             ELSE IF st.vis[p] = 0
                  THEN BfsVisitNeighbors(vals, brd, curr, n, k + 1,
                           [st EXCEPT !.dist = d1,
                                      !.vis = [st.vis EXCEPT ![curr] = 1],
                                      !.q = Append(st.q, p)])
                  ELSE BfsVisitNeighbors(vals, brd, curr, n, k + 1,
                           [st EXCEPT !.dist = d1]) : st \in {st0}} : TRUE

\* variant: the neighbour is looked for at the distance d itself
RECURSIVE BfsFirstCloserSame(_, _, _, _)
BfsFirstCloserSame(dist, n, k, d) ==
    IF k > Len(n) THEN 0
    ELSE IF dist[n[k]] # Inf /\ dist[n[k]] = d THEN k
    ELSE BfsFirstCloserSame(dist, n, k + 1, d)

\* the first neighbour, in order, whose distance is one less than d;
\* 0 when there is none
RECURSIVE BfsFirstCloser(_, _, _, _)
BfsFirstCloser(dist, n, k, d) ==
    IF k > Len(n) THEN 0
    ELSE IF dist[n[k]] # Inf /\ dist[n[k]] = d - 1 THEN k
    ELSE BfsFirstCloser(dist, n, k + 1, d)

\* variant: the fallback for an empty path is action 0
BfsMoveActionFallbackZero(bs, head, pth) ==
    IF Len(pth) = 0 THEN 0
    ELSE LET next_head == pth[Len(pth) - 1]
             c == PointToRowCol(bs, head)
             n == PointToRowCol(bs, next_head)
             dx == n[2] - c[2]
             dy == -n[1] + c[1]
         IN  IF dx = 1 /\ dy = 0 THEN 0
             ELSE IF dx = 0 /\ dy = 1 THEN 1
             ELSE IF dx = -1 /\ dy = 0 THEN 2
             ELSE IF dx = 0 /\ dy = -1 THEN 3
             ELSE 0

\* variant: the vertical displacement is taken with the opposite sign
BfsMoveActionFlipped(bs, head, pth) ==
    IF Len(pth) = 0 THEN 1
    ELSE LET next_head == pth[Len(pth) - 1]
             c == PointToRowCol(bs, head)
             n == PointToRowCol(bs, next_head)
             dx == n[2] - c[2]
             dy == n[1] - c[1]
         IN  IF dx = 1 /\ dy = 0 THEN 0
             ELSE IF dx = 0 /\ dy = 1 THEN 1
             ELSE IF dx = -1 /\ dy = 0 THEN 2
             ELSE IF dx = 0 /\ dy = -1 THEN 3
             ELSE 0

\* lines 1034-1060 of move: the action of one row from the path found.
\* path[-2] is pth[Len(pth) - 1]; prev_head (lines 1039-1046) is computed
\* and never read.
BfsMoveAction(bs, head, pth) ==
    IF Len(pth) = 0 THEN 1
    ELSE LET next_head == pth[Len(pth) - 1]
             c == PointToRowCol(bs, head)
             n == PointToRowCol(bs, next_head)
             dx == n[2] - c[2]
             dy == -n[1] + c[1]
         IN  IF dx = 1 /\ dy = 0 THEN 0
             ELSE IF dx = 0 /\ dy = 1 THEN 1
             ELSE IF dx = -1 /\ dy = 0 THEN 2
             ELSE IF dx = 0 /\ dy = -1 THEN 3
             ELSE 0

(***************************************************************************)
(* The boards given to the breadth-first agent: a border of body cells, a  *)
(* head, a body that trails behind the head as a chain of adjacent cells,  *)
(* and at most one food cell on a free cell.                               *)
(***************************************************************************)
GridAdjacent(bs, p) == {q \in InteriorPoints(bs) : ManhattanAdjacent(bs, p, q)}

\* the sets of cells (head included) a snake with at most n more body
\* cells after tip can cover
RECURSIVE SnakeCells(_, _, _, _)
SnakeCells(bs, tip, used, n) ==
    IF n = 0 THEN {used}
    ELSE {used} \cup UNION {SnakeCells(bs, q, used \cup {q}, n - 1) :
                               q \in GridAdjacent(bs, tip) \ used}

MakeBoard(bs, vals, head, snake, foods) ==
    [p \in Points(bs) |->
        IF p = head THEN vals.head
        ELSE IF p \in snake THEN vals.snake
        ELSE IF p \in foods THEN vals.food
        ELSE IF IsInterior(bs, p) THEN vals.board
        ELSE vals.snake]

BfsBoards(bs, vals, maxBody) ==
    UNION { UNION { {MakeBoard(bs, vals, head, snake, {})} \cup
                    {MakeBoard(bs, vals, head, snake, {f}) :
                        f \in InteriorPoints(bs) \ snake} :
                    snake \in SnakeCells(bs, head, {head}, maxBody)} :
            head \in InteriorPoints(bs)}

\* the rows of the batches of more than one row: no body, the head on the
\* first interior cell, the food on another corner of the interior
PairBoards(bs, vals) ==
    {MakeBoard(bs, vals, bs + 1, {bs + 1}, {f}) :
        f \in {RowColToPoint(bs, 1, bs - 2), RowColToPoint(bs, bs - 2, 1),
               RowColToPoint(bs, bs - 2, bs - 2)}}

RECURSIVE SeqsOf(_, _)
SeqsOf(S, n) ==
    IF n = 0 THEN {<<>>}
    ELSE {Append(t, x) : t \in SeqsOf(S, n - 1), x \in S}

BfsBatches(bs, vals) ==
    {<<b>> : b \in BfsBoards(bs, vals, MaxBody)} \cup
    UNION {SeqsOf(PairBoards(bs, vals), n) : n \in 2 .. MaxBatch}

(***************************************************************************)
(* BreadthFirstSearchAgent: actions                                        *)
(***************************************************************************)
InitBfs ==
    /\ board_size = BfsBoardSize
    /\ values \in ValueMaps
    /\ board_main \in BfsBatches(board_size, values)
    /\ legal_moves = [k \in 1 .. Len(board_main) |-> AllLegal]
    /\ perr = "none"
    /\ board = NoBoard
    /\ bpc = "loop"
    /\ bi = 0
    /\ a = [k \in 1 .. Len(board_main) |-> 0]
    /\ paths = <<>>
    /\ points_to_search = <<>>
    /\ distances = <<>>
    /\ visited = <<>>
    /\ found = FALSE
    /\ path = <<>>
    /\ curr_point = 0
    /\ added = <<>>
    /\ popped = 0
    /\ HamIdle
    /\ DqnIdle
    /\ ExtraIdle

\* move, line 1032, and _get_shortest_path, lines 968-978
BfsRowStart ==
    /\ bpc = "loop"
    /\ bi < Len(board_main)
    /\ \E brd \in {board_main[bi + 1]} :
       \E head \in {GridSum(brd, values.head)} :
           /\ board' = brd
           /\ points_to_search' = <<head>>
           /\ distances' = [p \in Points(board_size) |->
                               IF p = head THEN 0 ELSE Inf]
           /\ visited' = [p \in Points(board_size) |->
                               IF p = head THEN 1 ELSE 0]
           /\ added' = [p \in Points(board_size) |->
                               IF p = head THEN 1 ELSE 0]
    /\ popped' = 0
    /\ path' = <<>>
    /\ found' = FALSE
    /\ curr_point' = 0
    /\ bpc' = "search"
    /\ UNCHANGED <<board_size, values, legal_moves, perr, board_main, bi, a,
                   paths, notBfsVars>>

\* one iteration of while(not found), lines 979-1004; when the loop ends,
\* lines 1006-1007 start the reconstruction from the food cell
BfsSearchIter ==
    /\ bpc = "search"
    /\ IF Len(points_to_search) = 0
       THEN /\ path' = <<GridSum(board, values.food)>>
            /\ curr_point' = GridSum(board, values.food)
            /\ bpc' = "recon"
            /\ UNCHANGED <<points_to_search, distances, visited, found,
                           added, popped>>
       ELSE LET curr == Head(points_to_search)
            IN  \E n \in {BfsGetNeighbors(board_size, values, board, curr)} :
                \E st \in {BfsVisitNeighbors(values, board, curr, n, 1,
                         [q |-> Tail(points_to_search), dist |-> distances,
                          vis |-> visited, found |-> FALSE])} :
                /\ points_to_search' = st.q
                /\ distances' = st.dist
                /\ visited' = st.vis
                /\ found' = st.found
                /\ popped' = popped + 1
                /\ added' = [p \in Points(board_size) |->
                      added[p] + Cardinality(
                          {j \in Len(points_to_search) .. Len(st.q) :
                              st.q[j] = p})]
                /\ IF st.found
                   THEN /\ path' = <<GridSum(board, values.food)>>
                        /\ curr_point' = GridSum(board, values.food)
                        /\ bpc' = "recon"
                   ELSE /\ curr_point' = curr
                        /\ UNCHANGED <<path, bpc>>
    /\ UNCHANGED <<planVars, board_main, bi, a, paths, notBfsVars>>

\* one iteration of while(1), lines 1008-1023
BfsReconIter ==
    /\ bpc = "recon"
    /\ IF distances[curr_point] = Inf
       THEN /\ path' = <<>>
            /\ bpc' = "pathret"
            /\ UNCHANGED curr_point
       ELSE IF distances[curr_point] = 0
       THEN /\ bpc' = "pathret"
            /\ UNCHANGED <<path, curr_point>>
       ELSE LET n == BfsGetNeighbors(board_size, values, board, curr_point)
                k == BfsFirstCloser(distances, n, 1, distances[curr_point])
            IN  IF k = 0
                THEN UNCHANGED <<path, curr_point, bpc>>
                ELSE /\ path' = Append(path, n[k])
                     /\ curr_point' = n[k]
                     /\ UNCHANGED bpc
    /\ UNCHANGED <<planVars, board_main, bi, a, paths, points_to_search,
                   distances, visited, found, added, popped, notBfsVars>>

\* move, lines 1033-1060, for the row whose path has been returned; after
\* the last row move returns a
BfsRowFinish ==
    /\ bpc = "pathret"
    /\ a' = [a EXCEPT ![bi + 1] =
                BfsMoveAction(board_size, GridSum(board, values.head), path)]
    /\ paths' = Append(paths, path)
    /\ bi' = bi + 1
    /\ bpc' = IF bi + 1 < Len(board_main) THEN "loop" ELSE "returned"
    /\ UNCHANGED <<planVars, board_main, points_to_search, distances, visited,
                   found, path, curr_point, added, popped, notBfsVars>>

\* get_action_proba, lines 1075-1080: line 1077 calls
\* self.move(board, values)
BfsGetActionProba ==
    /\ bpc = "loop"
    /\ bi = 0
    /\ PyCall(PlannerMoveParams, ProbaCallArgs) = "TypeError"
    /\ perr' = "TypeError"
    /\ bpc' = "raised"
    /\ UNCHANGED <<board_size, values, board, legal_moves, bfsVarsButPc,
                   notBfsVars>>

NextBfs ==
    \/ BfsGetActionProba
    \/ BfsRowStart
    \/ BfsSearchIter
    \/ BfsReconIter
    \/ BfsRowFinish

SpecBfs == InitBfs /\ [][NextBfs]_vars

\* the thread that runs move keeps running: a loop iteration that can be
\* taken is taken
SpecBfsFair == InitBfs /\ [][NextBfs]_vars /\ WF_vars(NextBfs)

(***************************************************************************)
(* The true hop distance between two cells through cells coded free, food  *)
(* or head, computed layer by layer; Inf when there is no such walk.       *)
(***************************************************************************)
Traversable(vals, brd) ==
    {p \in DOMAIN brd : brd[p] \in {vals.board, vals.food, vals.head}}

RECURSIVE HopsFrom(_, _, _, _, _, _)
HopsFrom(bs, free, frontier, seen, target, d) ==
    IF target \in frontier THEN d
    ELSE IF frontier = {} THEN Inf
    ELSE LET nxt == {q \in free \ seen :
                        \E p \in frontier : ManhattanAdjacent(bs, p, q)}
         IN  HopsFrom(bs, free, nxt, seen \cup nxt, target, d + 1)

HopDistance(bs, vals, brd, from, to) ==
    IF from \notin Traversable(vals, brd) THEN Inf
    ELSE HopsFrom(bs, Traversable(vals, brd), {from}, {from}, to, 0)

HeadOf(vals, brd) == CHOOSE p \in DOMAIN brd : brd[p] = vals.head

HasFood(vals, brd) == \E p \in DOMAIN brd : brd[p] = vals.food

FoodOf(vals, brd) == CHOOSE p \in DOMAIN brd : brd[p] = vals.food

\* the food is on the board and a walk through free, food and head cells
\* joins the head to it
FoodReachable(bs, vals, brd) ==
    /\ HasFood(vals, brd)
    /\ HopDistance(bs, vals, brd, HeadOf(vals, brd), FoodOf(vals, brd)) # Inf

\* the cell an action leads to: 0 column+1, 1 row-1, 2 column-1, 3 row+1
ApplyAction(bs, p, act) ==
    CASE act = 0 -> p + 1
      [] act = 1 -> p - bs
      [] act = 2 -> p - 1
      [] act = 3 -> p + bs

(***************************************************************************)
(* C2: when the food is reachable from the head, the path returned by      *)
(* _get_shortest_path starts at the food, ends at the head, steps between  *)
(* 4-neighbours, holds no body and no border cell, and has the true        *)
(* shortest hop distance plus one elements.                                *)
(***************************************************************************)
BfsPathIsShortest ==
    (bpc = "pathret" /\ FoodReachable(board_size, values, board)) =>
        LET head == HeadOf(values, board)
            food == FoodOf(values, board)
        IN  /\ Len(path) >= 2
            /\ path[1] = food
            /\ path[Len(path)] = head
            /\ \A k \in 1 .. (Len(path) - 1) :
                  ManhattanAdjacent(board_size, path[k], path[k + 1])
            /\ \A k \in 1 .. Len(path) :
                  /\ board[path[k]] # values.snake
                  /\ IsInterior(board_size, path[k])
            /\ Len(path) = HopDistance(board_size, values, board, head, food) + 1

\* a path that has to go round the body: longer than the straight distance
BfsPathAroundBody ==
    /\ bpc = "pathret"
    /\ FoodReachable(board_size, values, board)
    /\ LET h == PointToRowCol(board_size, HeadOf(values, board))
           f == PointToRowCol(board_size, FoodOf(values, board))
       IN  Len(path) > Abs(h[1] - f[1]) + Abs(h[2] - f[2]) + 1

(***************************************************************************)
(* C3: when the food is not reachable from the head (enclosed by the body, *)
(* or absent), _get_shortest_path returns the empty path and move gives    *)
(* that row action 1.                                                      *)
(***************************************************************************)
BfsNoPathFallsBack ==
    /\ (bpc = "pathret" /\ ~FoodReachable(board_size, values, board)) =>
           path = <<>>
    /\ \A k \in 1 .. bi :
           ~FoodReachable(board_size, values, board_main[k]) =>
               (paths[k] = <<>> /\ a[k] = 1)

\* move has returned for a board whose food is there, enclosed by the body
BfsEnclosedFoodFallsBack ==
    /\ bpc = "returned"
    /\ Len(board_main) = 1
    /\ HasFood(values, board_main[1])
    /\ ~FoodReachable(board_size, values, board_main[1])
    /\ a[1] = 1

(***************************************************************************)
(* C4: for every row whose food is reachable, the action of the row leads  *)
(* from the head to the second-to-last element of the path, which is a     *)
(* traversable cell one hop closer to the food than the head; rows are     *)
(* decided from their own board: equal rows get equal actions.             *)
(***************************************************************************)
BfsMoveFollowsPath ==
    /\ \A k \in 1 .. bi :
          FoodReachable(board_size, values, board_main[k]) =>
              LET brd == board_main[k]
                  head == HeadOf(values, brd)
                  food == FoodOf(values, brd)
                  cell == ApplyAction(board_size, head, a[k])
              IN  /\ a[k] \in {0, 1, 2, 3}
                  /\ Len(paths[k]) >= 2
                  /\ cell = paths[k][Len(paths[k]) - 1]
                  /\ cell \in Traversable(values, brd)
                  /\ HopDistance(board_size, values, brd, cell, food)
                       = HopDistance(board_size, values, brd, head, food) - 1
    /\ \A j, k \in 1 .. bi : board_main[j] = board_main[k] => a[j] = a[k]

\* a batch of two different rows has been decided, with different actions
BfsBatchDecided ==
    /\ bpc = "returned"
    /\ Len(board_main) = 2
    /\ board_main[1] # board_main[2]
    /\ a[1] = 3
    /\ a[2] = 0

(***************************************************************************)
(* DeepQLearningAgent: the network.  The architecture is read from a       *)
(* configuration file; here a parameter set is a vector of NActions        *)
(* numbers and the output for board state st is that vector rotated by st, *)
(* so different boards give different outputs and different parameter sets *)
(* give different output functions.                                        *)
(***************************************************************************)
NActions == 3

ActionIdx == 0 .. (NActions - 1)

QVals == (-1) .. MaxQ

Params == [ActionIdx -> QVals]

States == 0 .. MaxState

\* DQN.forward
Net(params, st) == [c \in ActionIdx |-> params[(c + st) % NActions]]

\* the parameter sets an optimizer step or an earlier run may leave
OneHotParams(k) == [c \in ActionIdx |-> IF c = k THEN 1 ELSE 0]

ParamPool == {OneHotParams(k) : k \in ActionIdx}

\* the parameter sets of the checkpoint specification: two that make move
\* return different actions
CkptPool == {OneHotParams(0), OneHotParams(1)}

(***************************************************************************)
(* DeepQLearningAgent.move                                                 *)
(***************************************************************************)
\* -np.inf; a finite output v is <<1, v>>
NegInfinity == <<0, 0>>

ExtGt(x, y) == x[1] > y[1] \/ (x[1] = 1 /\ y[1] = 1 /\ x[2] > y[2])

\* np.argmax over one row: the first index that holds the maximum
ArgMax(row) ==
    CHOOSE c \in DOMAIN row :
        /\ \A e \in DOMAIN row : ~ExtGt(row[e], row[c])
        /\ \A e \in DOMAIN row : e < c => ExtGt(row[c], row[e])

\* variant: the mask is applied after the arg-max instead of before
DqnMoveRowUnmasked(params, st, legal) ==
    ArgMax([c \in ActionIdx |-> <<1, Net(params, st)[c]>>])

\* line 309, for one row
DqnMoveRow(params, st, legal) ==
    ArgMax([c \in ActionIdx |->
               IF legal[c] = 1 THEN <<1, Net(params, st)[c]>>
               ELSE NegInfinity])

(***************************************************************************)
(* DeepQLearningAgent.train_agent.  gamma is GammaNum/GammaDen; returns    *)
(* and targets are kept as integers in units of 1/GammaDen.                *)
(***************************************************************************)
GammaNum == 99

GammaDen == 100

Sentinel == -10000

Sign(x) == IF x > 0 THEN 1 ELSE IF x < 0 THEN -1 ELSE 0

MaxOf(f) == CHOOSE v \in {f[c] : c \in DOMAIN f} : \A c \in DOMAIN f : v >= f[c]

\* variant: the next state is always evaluated with the online network
DqnDiscountedRewardOnline(utn, mdl, tnet, row, clip) ==
    LET r == IF clip THEN Sign(row.r) ELSE row.r
        next_model_outputs == Net(mdl, row.next_s)
        masked == [c \in ActionIdx |->
                      IF row.legal[c] = 1 THEN next_model_outputs[c]
                      ELSE Sentinel]
    IN  GammaDen * r + GammaNum * MaxOf(masked) * (1 - row.done)

\* lines 360-368, for one row
DqnDiscountedReward(utn, mdl, tnet, row, clip) ==
    LET r == IF clip THEN Sign(row.r) ELSE row.r
        current_model == IF utn THEN tnet ELSE mdl
        next_model_outputs == Net(current_model, row.next_s)
        masked == [c \in ActionIdx |->
                      IF row.legal[c] = 1 THEN next_model_outputs[c]
                      ELSE Sentinel]
    IN  GammaDen * r + GammaNum * MaxOf(masked) * (1 - row.done)

\* variant: the blend is written the other way round
DqnTrainTargetSwapped(mdl, row, disc) ==
    LET t == Net(mdl, row.s)
    IN  [c \in ActionIdx |->
            row.a[c] * (GammaDen * t[c]) + (1 - row.a[c]) * disc]

\* lines 370-372, for one row
DqnTrainTarget(mdl, row, disc) ==
    LET t == Net(mdl, row.s)
    IN  [c \in ActionIdx |->
            (1 - row.a[c]) * (GammaDen * t[c]) + row.a[c] * disc]

\* variant: the optimizer step reaches the target network's parameters too
DqnTargetAfterTrainShared(tnet, new) == IF tnet = NoNet THEN NoNet ELSE new

\* lines 374-385: the optimizer holds self._model.parameters() only
DqnTargetAfterTrain(tnet, new) == tnet

(***************************************************************************)
(* DeepQLearningAgent.get_action_proba, lines 319-323: the clipped outputs *)
(* minus their maximum, the arguments of the exponential                   *)
(***************************************************************************)
ClipBound == 10

Clip(x) == IF x < -ClipBound THEN -ClipBound
           ELSE IF x > ClipBound THEN ClipBound ELSE x

DqnShiftedOutputs(params, st) ==
    LET clipped == [c \in ActionIdx |-> Clip(Net(params, st)[c])]
    IN  [c \in ActionIdx |-> clipped[c] - MaxOf(clipped)]

(***************************************************************************)
(* Checkpoint files                                                        *)
(***************************************************************************)
\* the argument iteration: NoneIter is None, <<n>> is the integer n
NoneIter == <<>>

Iterations == {NoneIter} \cup {<<n>> : n \in 0 .. MaxIter}

RECURSIVE Digits(_)
Digits(n) == IF n < 10 THEN <<n>> ELSE Append(Digits(n \div 10), n % 10)

RECURSIVE PadLeft(_, _)
PadLeft(d, w) == IF Len(d) >= w THEN d ELSE PadLeft(<<0>> \o d, w)

\* "{:04d}" of a non-negative integer, as its digits
Format04d(n) == PadLeft(Digits(n), 4)

\* lines 334-335 and 342-343
IterationOrZero(it) == IF it = NoneIter THEN 0 ELSE it[1]

\* variant: the iteration number is left out of the file name
ModelPathNoIteration(file_path, it) ==
    <<file_path, "model_", Format04d(0), ".pt">>

ModelPath(file_path, it) ==
    <<file_path, "model_", Format04d(IterationOrZero(it)), ".pt">>

TargetModelPath(file_path, it) ==
    <<file_path, "model_", Format04d(IterationOrZero(it)), "_target.pt">>

WriteFile(fs, name, content) ==
    [f \in DOMAIN fs \cup {name} |-> IF f = name THEN content ELSE fs[f]]

NoFiles == <<>>

FilePaths == {"models"}

\* what an earlier run may have left: nothing, a checkpoint of an agent
\* without target network, or a checkpoint of an agent with one
EarlierRunFiles ==
    {NoFiles} \cup
    {WriteFile(NoFiles, ModelPath(d, <<0>>), w) :
        d \in FilePaths, w \in CkptPool} \cup
    {WriteFile(WriteFile(NoFiles, ModelPath(d, <<0>>), w),
               TargetModelPath(d, <<0>>), w) :
        d \in FilePaths, w \in CkptPool}

(***************************************************************************)
(* DeepQLearningAgent: actions.  The sets of arguments are parameters, so  *)
(* that the two specifications can draw them from different bounds.        *)
(***************************************************************************)
Masks == [ActionIdx -> {0, 1}]

OneHots == {[c \in ActionIdx |-> IF c = k THEN 1 ELSE 0] : k \in ActionIdx}

Rewards == (-MaxReward) .. MaxReward

SampleRows ==
    [s : States, a : OneHots, r : Rewards, next_s : States, done : {0, 1},
     legal : Masks]

MoveRows == [s : States, legal : Masks]

\* __init__ and reset_models, lines 258-275: the target network is a second
\* object, given the first's parameters by update_target_net
DqnConstructed(utn, w) ==
    /\ use_target_net = utn
    /\ model = w
    /\ target_net = IF utn THEN w ELSE NoNet
    /\ synced = w
    /\ stale = FALSE
    /\ saved = <<>>
    /\ dcall = NoCall

DqnMove(batches) ==
    /\ \E b \in batches :
          dcall' = [op |-> "move", arg |-> b, before |-> <<>>,
                    ret |-> [k \in DOMAIN b |->
                                DqnMoveRow(model, b[k].s, b[k].legal)]]
    /\ UNCHANGED <<use_target_net, model, target_net, files, synced, stale,
                   saved, notDqnVars>>

DqnGetActionProba(boards) ==
    /\ \E b \in boards :
          dcall' = [op |-> "get_action_proba", arg |-> b, before |-> <<>>,
                    ret |-> [k \in DOMAIN b |->
                                DqnShiftedOutputs(model, b[k])]]
    /\ UNCHANGED <<use_target_net, model, target_net, files, synced, stale,
                   saved, notDqnVars>>

DqnTrainAgent(samples, clips, outcomes) ==
    /\ \E smp \in samples, clip \in clips, new \in outcomes :
          LET disc == [k \in DOMAIN smp |->
                          DqnDiscountedReward(use_target_net, model,
                                              target_net, smp[k], clip)]
              target == [k \in DOMAIN smp |->
                            DqnTrainTarget(model, smp[k], disc[k])]
          IN  /\ dcall' = [op |-> "train_agent",
                           arg |-> [sample |-> smp, reward_clip |-> clip],
                           before |-> [model |-> model,
                                       target_net |-> target_net],
                           ret |-> [discounted_reward |-> disc,
                                    target |-> target]]
              /\ model' = new
              /\ target_net' = DqnTargetAfterTrain(target_net, new)
    /\ UNCHANGED <<use_target_net, files, synced, stale, saved, notDqnVars>>

DqnUpdateTargetNet ==
    /\ IF use_target_net
       THEN /\ target_net' = model
            /\ synced' = model
            /\ stale' = FALSE
       ELSE UNCHANGED <<target_net, synced, stale>>
    /\ dcall' = [op |-> "update_target_net", arg |-> <<>>,
                 before |-> [model |-> model, target_net |-> target_net],
                 ret |-> <<>>]
    /\ UNCHANGED <<use_target_net, model, files, saved, notDqnVars>>

DqnSaveModel ==
    /\ \E d \in FilePaths, it \in Iterations :
          /\ files' =
                LET fs1 == WriteFile(files, ModelPath(d, it), model)
                IN  IF use_target_net
                    THEN WriteFile(fs1, TargetModelPath(d, it), target_net)
                    ELSE fs1
          /\ saved' = WriteFile(saved, <<d, IF it = NoneIter THEN 0 ELSE it[1]>>,
                                [model |-> model, target_net |-> target_net])
          /\ dcall' = [op |-> "save_model",
                       arg |-> [file_path |-> d, iteration |-> it],
                       before |-> <<>>, ret |-> <<>>]
    /\ UNCHANGED <<use_target_net, model, target_net, synced, stale,
                   notDqnVars>>

DqnLoadModel ==
    /\ \E d \in FilePaths, it \in Iterations :
          LET model_path == ModelPath(d, it)
              target_model_path == TargetModelPath(d, it)
              call(ret) == [op |-> "load_model",
                            arg |-> [file_path |-> d, iteration |-> it],
                            before |-> [model |-> model,
                                        target_net |-> target_net],
                            ret |-> ret]
          IN  IF model_path \notin DOMAIN files
              THEN /\ dcall' = call("FileNotFoundError")
                   /\ UNCHANGED <<model, target_net, stale>>
              ELSE /\ model' = files[model_path]
                   /\ stale' = TRUE
                   /\ IF use_target_net /\ target_model_path \in DOMAIN files
                      THEN /\ target_net' = files[target_model_path]
                           /\ dcall' = call("ok")
                      ELSE IF use_target_net
                      THEN /\ dcall' = call("FileNotFoundError")
                           /\ UNCHANGED target_net
                      ELSE /\ dcall' = call("ok")
                           /\ UNCHANGED target_net
    /\ UNCHANGED <<use_target_net, files, synced, saved, notDqnVars>>

(***************************************************************************)
(* SpecDqn: one call of move or train_agent on an agent in any state, with *)
(* every board, mask and sampled row within the bounds.  The parameters    *)
(* the optimizer leaves enter nothing these calls compute, so one outcome  *)
(* stands for them here.                                                   *)
(***************************************************************************)
\* batches of one row, and batches of two rows on the first board state
DqnMoveBatches ==
    {<<x>> : x \in MoveRows} \cup
    {<<x, y>> : x, y \in {z \in MoveRows : z.s = 0}}

\* samples of one row, and samples of two rows that differ only in the
\* action taken and the reward
DqnSamples ==
    {<<x>> : x \in SampleRows} \cup
    {<<x, y>> : x, y \in {z \in SampleRows :
                            /\ z.s = 0 /\ z.next_s = 0 /\ z.done = 0
                            /\ z.legal = [c \in ActionIdx |-> 1]
                            /\ z.r \in {0, 1}}}

\* the agent as constructed, or after training steps that left the target
\* network behind the online one
InitDqn ==
    /\ \E utn \in BOOLEAN, w \in Params, t \in ParamPool :
          \/ DqnConstructed(utn, w)
          \/ /\ utn
             /\ use_target_net = TRUE
             /\ model = w
             /\ target_net = t
             /\ synced = t
             /\ stale = FALSE
             /\ saved = <<>>
             /\ dcall = NoCall
    /\ files = NoFiles
    /\ PlanIdle
    /\ HamIdle
    /\ BfsIdle
    /\ ExtraIdle

DqnFirstMove ==
    /\ dcall.op = "none"
    /\ DqnMove(DqnMoveBatches)

DqnFirstTrain ==
    /\ dcall.op = "none"
    /\ DqnTrainAgent(DqnSamples, BOOLEAN, {OneHotParams(0)})

NextDqn ==
    \/ DqnFirstMove
    \/ DqnFirstTrain

SpecDqn == InitDqn /\ [][NextDqn]_vars

(***************************************************************************)
(* C5: for every row of the batch whose mask marks some action legal, the  *)
(* action move returns is marked legal and no legal action has a larger    *)
(* model output.                                                           *)
(***************************************************************************)
DqnMoveReturnsBestLegal ==
    dcall.op = "move" =>
        \A k \in DOMAIN dcall.arg :
            LET row == dcall.arg[k]
                out == Net(model, row.s)
                act == dcall.ret[k]
            IN  (\E c \in ActionIdx : row.legal[c] = 1) =>
                    /\ act \in ActionIdx
                    /\ row.legal[act] = 1
                    /\ \A c \in ActionIdx :
                          row.legal[c] = 1 => out[act] >= out[c]

\* the largest output is on an illegal action, and move returns another
DqnMoveSkipsIllegalBest ==
    /\ dcall.op = "move"
    /\ Len(dcall.arg) = 2
    /\ LET row == dcall.arg[2]
           out == Net(model, row.s)
       IN  /\ row.legal[0] = 0
           /\ out[0] > out[1] /\ out[1] > out[2]
           /\ row.legal[1] = 1
           /\ dcall.ret[2] = 1

(***************************************************************************)
(* C7: for every sampled row, the regression target holds the discounted   *)
(* return in the column of the action taken and, in every other column,    *)
(* the output of the online network for the sampled state as it was when   *)
(* train_agent was called.                                                 *)
(***************************************************************************)
DqnTargetBlendsTakenColumn ==
    dcall.op = "train_agent" =>
        \A k \in DOMAIN dcall.arg.sample :
            LET row == dcall.arg.sample[k]
                out == Net(dcall.before.model, row.s)
            IN  \A c \in ActionIdx :
                    IF row.a[c] = 1
                    THEN dcall.ret.target[k][c] = dcall.ret.discounted_reward[k]
                    ELSE dcall.ret.target[k][c] = GammaDen * out[c]

\* action [0,1,0] was taken; the target differs from the current output
\* in that column only, and the step has changed the online parameters
DqnTargetOverwritesOneColumn ==
    /\ dcall.op = "train_agent"
    /\ Len(dcall.arg.sample) = 1
    /\ LET row == dcall.arg.sample[1]
           out == Net(dcall.before.model, row.s)
       IN  /\ row.a = [c \in ActionIdx |-> IF c = 1 THEN 1 ELSE 0]
           /\ out[0] # out[2]
           /\ dcall.ret.target[1][1] # GammaDen * out[1]
           /\ dcall.ret.target[1][0] = GammaDen * out[0]
           /\ dcall.ret.target[1][2] = GammaDen * out[2]
           /\ model # dcall.before.model

(***************************************************************************)
(* SpecCkpt: any sequence of calls on one agent, in a directory that an    *)
(* earlier run may have written to.  move and get_action_proba are called  *)
(* on one fixed board and mask, train_agent on one fixed sampled row.      *)
(***************************************************************************)
FixedMask == [c \in ActionIdx |-> 1]

FixedBatch == <<[s |-> 0, legal |-> FixedMask]>>

FixedSample ==
    <<[s |-> 0, a |-> [c \in ActionIdx |-> IF c = 0 THEN 1 ELSE 0], r |-> 1,
       next_s |-> 0, done |-> 0, legal |-> FixedMask]>>

InitCkpt ==
    /\ \E utn \in BOOLEAN, w \in CkptPool : DqnConstructed(utn, w)
    /\ files \in EarlierRunFiles
    /\ PlanIdle
    /\ HamIdle
    /\ BfsIdle
    /\ ExtraIdle

CkptMove == DqnMove({FixedBatch})

CkptGetActionProba == DqnGetActionProba({<<0>>})

CkptTrainAgent == DqnTrainAgent({FixedSample}, {FALSE}, CkptPool)

NextCkpt ==
    \/ CkptMove
    \/ CkptGetActionProba
    \/ CkptTrainAgent
    \/ DqnUpdateTargetNet
    \/ DqnSaveModel
    \/ DqnLoadModel

SpecCkpt == InitCkpt /\ [][NextCkpt]_vars

(***************************************************************************)
(* C8: with a target network, and until load_model replaces it, the target *)
(* parameters are those the online network had at the last                 *)
(* update_target_net (or at construction): train_agent leaves the target   *)
(* parameters alone, update_target_net leaves the online ones alone, and   *)
(* move and get_action_proba change neither.                               *)
(***************************************************************************)
TargetIsLastSync ==
    /\ (use_target_net /\ ~stale) => target_net = synced
    /\ (use_target_net /\ dcall.op = "train_agent") =>
           target_net = dcall.before.target_net
    /\ dcall.op = "update_target_net" =>
           /\ model = dcall.before.model
           /\ use_target_net => target_net = model

\* a training step has moved the online parameters away from the target's
TargetLagsAfterTrain ==
    /\ use_target_net
    /\ ~stale
    /\ dcall.op = "train_agent"
    /\ model # dcall.before.model
    /\ model # target_net
    /\ target_net = synced

(***************************************************************************)
(* C9: load_model(path, i) after a save_model(path, i) of this agent       *)
(* succeeds and gives the online and the target parameters the values they *)
(* had at that save, whatever training and synchronisation came between,   *)
(* so move returns the action it returned then; None names the same file   *)
(* as 0.                                                                   *)
(***************************************************************************)
CkptLoadRestoresSave ==
    dcall.op = "load_model" =>
        LET it == dcall.arg.iteration
            key == <<dcall.arg.file_path, IF it = NoneIter THEN 0 ELSE it[1]>>
        IN  key \in DOMAIN saved =>
                /\ dcall.ret = "ok"
                /\ model = saved[key].model
                /\ use_target_net => target_net = saved[key].target_net
                /\ DqnMoveRow(model, 0, FixedMask)
                     = DqnMoveRow(saved[key].model, 0, FixedMask)

\* load_model(path, None) has put back parameters saved earlier, replacing
\* trained ones that made move return another action
CkptLoadUndoesTraining ==
    /\ dcall.op = "load_model"
    /\ dcall.ret = "ok"
    /\ dcall.arg.iteration = NoneIter
    /\ <<dcall.arg.file_path, 0>> \in DOMAIN saved
    /\ use_target_net
    /\ target_net # dcall.before.target_net
    /\ DqnMoveRow(model, 0, FixedMask)
         # DqnMoveRow(dcall.before.model, 0, FixedMask)

(***************************************************************************)
(* C10: a load_model that raises FileNotFoundError leaves the online and   *)
(* the target parameters as they were before the call.                     *)
(***************************************************************************)
CkptFailedLoadKeepsParams ==
    (dcall.op = "load_model" /\ dcall.ret = "FileNotFoundError") =>
        /\ model = dcall.before.model
        /\ target_net = dcall.before.target_net

(***************************************************************************)
(* Floating point, by class: the arithmetic of IEEE 754 on the classes     *)
(* NaN, zero, finite positive, finite negative and the two infinities      *)
(***************************************************************************)
FNaN == "nan"

FZero == "zero"

FPos == "pos"

FNeg == "neg"

FPosInf == "+inf"

FNegInf == "-inf"

\* the class of an integer-valued float
FOfInt(x) == IF x > 0 THEN FPos ELSE IF x < 0 THEN FNeg ELSE FZero

FIsNeg(x) == x \in {FNeg, FNegInf}

FIsInf(x) == x \in {FPosInf, FNegInf}

\* x / y
FDiv(x, y) ==
    IF x = FNaN \/ y = FNaN THEN FNaN
    ELSE IF y = FZero THEN
        IF x = FZero THEN FNaN
        ELSE IF FIsNeg(x) THEN FNegInf ELSE FPosInf
    ELSE IF FIsInf(y) THEN
        IF FIsInf(x) THEN FNaN ELSE FZero
    ELSE IF x = FZero THEN FZero
    ELSE IF FIsInf(x) THEN
        IF FIsNeg(x) = FIsNeg(y) THEN FPosInf ELSE FNegInf
    ELSE IF FIsNeg(x) = FIsNeg(y) THEN FPos ELSE FNeg

\* sqrt(x) of a variance
FSqrt(x) == IF FIsNeg(x) THEN FNaN ELSE x

\* x + 1e-8 of a standard deviation
FPlusEps(x) == IF x = FZero THEN FPos ELSE x

(***************************************************************************)
(* Reward normalisation of PolicyGradientAgent.train_agent (lines 426-435) *)
(* and of AdvantageActorCriticAgent.train_agent (lines 597-610).  The      *)
(* rewards are integers, so sums and differences of them are exact.        *)
(***************************************************************************)
RECURSIVE SeqSum(_)
SeqSum(q) == IF q = <<>> THEN 0 ELSE q[1] + SeqSum(Tail(q))

\* Len(r) * (r[i] - mean(r)): the sign of r[i] - mean(r)
Deviation(r, i) == Len(r) * r[i] - SeqSum(r)

\* Len(r)^2 * sum((r - mean(r))^2)
SumSqDev(r) == SeqSum([i \in DOMAIN r |-> Deviation(r, i) * Deviation(r, i)])

\* rewards.std() of torch: Bessel's correction, sum of squares over N - 1
TorchStd(r) ==
    FSqrt(FDiv(FOfInt(SumSqDev(r)), FOfInt(Len(r) - 1)))

\* np.std(r): the population standard deviation, sum of squares over N
NumpyStd(r) ==
    FSqrt(FDiv(FOfInt(SumSqDev(r)), FOfInt(Len(r))))

\* line 435
PgNormalize(r) ==
    [i \in DOMAIN r |->
        FDiv(FOfInt(Deviation(r, i)), FPlusEps(TorchStd(r)))]

\* lines 606-610
A2cNormalize(r) ==
    IF Cardinality({i \in DOMAIN r : r[i] = r[1]}) = Len(r)
    THEN [i \in DOMAIN r |-> FOfInt(r[i] - r[i])]
    ELSE [i \in DOMAIN r |->
             FDiv(FOfInt(Deviation(r, i)), NumpyStd(r))]

RewardVectors ==
    UNION {[1 .. n -> (-MaxReward) .. MaxReward] : n \in 1 .. MaxBuffer}

\* train_agent has sampled the whole buffer (lines 426, 597)
InitNorm ==
    /\ npc = "sampled"
    /\ nagent \in {"pg", "a2c"}
    /\ normalize_rewards \in BOOLEAN
    /\ rewards \in RewardVectors
    /\ rnorm = <<>>
    /\ PlanIdle
    /\ HamIdle
    /\ BfsIdle
    /\ DqnIdle
    /\ ConcIdle
    /\ ParIdle
    /\ BtIdle
    /\ GameIdle

\* PolicyGradientAgent.train_agent, lines 433-435
PgNormalizeRewards ==
    /\ npc = "sampled"
    /\ nagent = "pg"
    /\ rnorm' = IF normalize_rewards THEN PgNormalize(rewards)
                ELSE [i \in DOMAIN rewards |-> FOfInt(rewards[i])]
    /\ npc' = "normalized"
    /\ UNCHANGED <<nagent, normalize_rewards, rewards, notNormVars>>

\* AdvantageActorCriticAgent.train_agent, lines 604-610
A2cNormalizeRewards ==
    /\ npc = "sampled"
    /\ nagent = "a2c"
    /\ rnorm' = IF normalize_rewards THEN A2cNormalize(rewards)
                ELSE [i \in DOMAIN rewards |-> FOfInt(rewards[i])]
    /\ npc' = "normalized"
    /\ UNCHANGED <<nagent, normalize_rewards, rewards, notNormVars>>

NextNorm ==
    \/ PgNormalizeRewards
    \/ A2cNormalizeRewards

SpecNorm == InitNorm /\ [][NextNorm]_vars

(***************************************************************************)
(* C11: when the sampled rewards are all equal (a buffer of one transition *)
(* included), the normalised rewards of both agents are zero in every      *)
(* entry, never NaN or infinite.                                           *)
(***************************************************************************)
NormOfConstantIsZero ==
    (/\ npc = "normalized"
     /\ normalize_rewards
     /\ \A i \in DOMAIN rewards : rewards[i] = rewards[1])
    => \A i \in DOMAIN rnorm : rnorm[i] = FZero

(***************************************************************************)
(* C12: on boards with a body-coded border, one head and at most one food, *)
(* every _get_shortest_path call ends, so move returns: the search loop    *)
(* ends with the food found or the frontier empty, and in the backward     *)
(* loop every cell reached with a finite non-zero distance has a           *)
(* traversable neighbour whose distance is exactly one less.               *)
(***************************************************************************)
BfsTerminates ==
    /\ [](bpc = "recon" /\ distances[curr_point] \notin {Inf, 0} =>
            \E q \in Traversable(values, board) :
                /\ ManhattanAdjacent(board_size, curr_point, q)
                /\ distances[q] = distances[curr_point] - 1)
    /\ [](bpc = "search" => <>(bpc = "pathret"))
    /\ [](bpc = "loop" => <>(bpc \in {"returned", "raised"}))

\* move has returned after a search that dequeued several cells and a
\* reconstruction that walked several cells back
BfsLoopsRanAndEnded ==
    /\ bpc = "returned"
    /\ popped >= 4
    /\ Len(path) >= 4

(***************************************************************************)
(* C13: during one _get_shortest_path call no cell is appended to the      *)
(* frontier more than once, and the number of cells dequeued does not      *)
(* exceed board_size^2.                                                    *)
(***************************************************************************)
BfsFrontierHoldsCellsOnce ==
    bpc \in {"search", "recon", "pathret"} =>
        /\ \A p \in DOMAIN added : added[p] <= 1
        /\ popped <= board_size * board_size

(***************************************************************************)
(* The planning agents called with any of the legality masks: a            *)
(* HamiltonianCycleAgent, or a BreadthFirstSearchAgent given one board     *)
(***************************************************************************)
InitBfsMask ==
    /\ board_size = BfsBoardSize
    /\ values \in ValueMaps
    /\ board_main \in {<<b>> : b \in BfsBoards(board_size, values, MaxBody)}
    /\ legal_moves \in {<<m>> : m \in PlannerMasks}
    /\ perr = "none"
    /\ board = NoBoard
    /\ bpc = "loop"
    /\ bi = 0
    /\ a = [k \in 1 .. Len(board_main) |-> 0]
    /\ paths = <<>>
    /\ points_to_search = <<>>
    /\ distances = <<>>
    /\ visited = <<>>
    /\ found = FALSE
    /\ path = <<>>
    /\ curr_point = 0
    /\ added = <<>>
    /\ popped = 0
    /\ HamIdle
    /\ DqnIdle
    /\ ExtraIdle

InitPlan == InitHam \/ InitBfsMask

NextPlan == NextHam \/ NextBfs

SpecPlan == InitPlan /\ [][NextPlan]_vars

(***************************************************************************)
(* C14: when the legality mask has a legal entry, the action returned by   *)
(* HamiltonianCycleAgent.move, and the action BreadthFirstSearchAgent.move *)
(* returns for each row (the fallback action 1 included), is an action     *)
(* the mask marks legal.                                                   *)
(***************************************************************************)
PlannerMoveIsLegal ==
    /\ (hpc = "returned" /\ \E c \in PlannerActions : legal_moves[c] = 1) =>
           (haction \in PlannerActions /\ legal_moves[haction] = 1)
    /\ bpc = "returned" =>
           \A k \in 1 .. Len(board_main) :
               (\E c \in PlannerActions : legal_moves[k][c] = 1) =>
                   legal_moves[k][a[k]] = 1

(***************************************************************************)
(* C15: for a row whose legality mask has no legal entry,                  *)
(* DeepQLearningAgent.move does not return an ordinary action index: the   *)
(* case is guarded by a distinguished outcome.                             *)
(***************************************************************************)
DqnMoveGuardsNoLegalAction ==
    dcall.op = "move" =>
        \A k \in DOMAIN dcall.arg :
            (\A c \in ActionIdx : dcall.arg[k].legal[c] = 0) =>
                dcall.ret[k] \notin ActionIdx


(***************************************************************************)
(* DeepQLearningAgent driven by two threads: one calls train_agent, the    *)
(* other update_target_net.  Neither method takes a lock (lines 357-391),  *)
(* so the threads interleave between the statements of train_agent and     *)
(* between the per-tensor writes of optimizer.step and load_state_dict.    *)
(* A parameter set has one tensor per index of ActionIdx.                  *)
(***************************************************************************)
InitConc ==
    /\ \E w \in ParamPool : DqnConstructed(TRUE, w)
    /\ files = <<>>
    /\ tr = NoTrain
    /\ up = NoSync
    /\ overlap = FALSE
    /\ done_models = {model}
    /\ PlanIdle
    /\ HamIdle
    /\ BfsIdle
    /\ NormIdle
    /\ ParIdle
    /\ BtIdle
    /\ GameIdle

\* train_agent, lines 358-368: sample, evaluate the target network
ConcTrainEvaluate ==
    /\ tr.pc = "idle"
    /\ tr' = [tr EXCEPT
                 !.pc = "evaluated",
                 !.disc = [k \in DOMAIN FixedSample |->
                              DqnDiscountedReward(use_target_net, model,
                                                  target_net, FixedSample[k],
                                                  FALSE)]]
    /\ UNCHANGED <<up, overlap, done_models, dqnVars, notConcVars>>

\* train_agent, lines 370-372: the online network's outputs, blended
ConcTrainTarget ==
    /\ tr.pc = "evaluated"
    /\ tr' = [tr EXCEPT
                 !.pc = "targeted",
                 !.target = [k \in DOMAIN FixedSample |->
                                DqnTrainTarget(model, FixedSample[k],
                                               tr.disc[k])]]
    /\ UNCHANGED <<up, overlap, done_models, dqnVars, notConcVars>>

\* train_agent, lines 374-384: forward, loss and backward; the gradients
\* fix the parameters the optimizer is about to write
ConcTrainBackward ==
    /\ tr.pc = "targeted"
    /\ \E new \in ParamPool :
          tr' = [tr EXCEPT !.pc = "step", !.k = 0, !.new = new]
    /\ UNCHANGED <<up, overlap, done_models, dqnVars, notConcVars>>

\* train_agent, lines 385-387: optimizer.step writes one tensor in place
\* at a time; after the last one the call returns
ConcTrainStep ==
    /\ tr.pc = "step"
    /\ model' = [model EXCEPT ![tr.k] = tr.new[tr.k]]
    /\ IF tr.k = NActions - 1
       THEN /\ tr' = NoTrain
            /\ done_models' = done_models \cup {model'}
       ELSE /\ tr' = [tr EXCEPT !.k = tr.k + 1]
            /\ UNCHANGED done_models
    /\ UNCHANGED <<up, overlap, use_target_net, target_net, files, dcall,
                   synced, stale, saved, notConcVars>>

\* update_target_net, lines 389-391: state_dict() hands out the online
\* tensors themselves
ConcSyncStart ==
    /\ up.pc = "idle"
    /\ use_target_net
    /\ up' = [pc |-> "copy", k |-> 0]
    /\ overlap' = (overlap \/ tr.pc # "idle")
    /\ UNCHANGED <<tr, done_models, dqnVars, notConcVars>>

\* update_target_net, line 391: load_state_dict copies one tensor at a time
ConcSyncCopy ==
    /\ up.pc = "copy"
    /\ target_net' = [target_net EXCEPT ![up.k] = model[up.k]]
    /\ up' = IF up.k = NActions - 1 THEN NoSync
             ELSE [up EXCEPT !.k = up.k + 1]
    /\ overlap' = (overlap \/ tr.pc # "idle")
    /\ UNCHANGED <<tr, done_models, use_target_net, model, files, dcall,
                   synced, stale, saved, notConcVars>>

NextConc ==
    \/ ConcTrainEvaluate
    \/ ConcTrainTarget
    \/ ConcTrainBackward
    \/ ConcTrainStep
    \/ ConcSyncStart
    \/ ConcSyncCopy

SpecConc == InitConc /\ [][NextConc]_vars

(***************************************************************************)
(* C16: with one thread calling train_agent and another calling            *)
(* update_target_net, no part of update_target_net runs between the start  *)
(* and the end of a train_agent call, and the parameters a finished        *)
(* update_target_net left in the target network are the online parameters  *)
(* as they stood after a whole number of completed training steps.         *)
(***************************************************************************)
ConcSyncNeverInsideTrain ==
    /\ ~overlap
    /\ up.pc = "idle" => target_net \in done_models


(***************************************************************************)
(* C17: a get_action_proba(board, values) call on either planning agent    *)
(* ends without an exception (it returns the one-hot list of move's        *)
(* action): no such call ends raised, with an error recorded.              *)
(***************************************************************************)
PlannerProbaReturnsWithoutError ==
    /\ hpc # "raised"
    /\ bpc # "raised"
    /\ perr = "none"


(***************************************************************************)
(* C18: every call of HamiltonianCycleAgent.move returns, whatever the     *)
(* board: once the search loop of move has been entered (a board without   *)
(* a head cell and a head on a border cell included), the call eventually  *)
(* reaches its return.                                                     *)
(***************************************************************************)
HamMoveTerminates == [](hpc = "search" => <>(hpc = "returned"))


(***************************************************************************)
(* C20: when move returns and the cycle predecessor of the head holds the  *)
(* free code of the caller's mapping (values.board), the returned action   *)
(* carries the head onto its cycle successor, whichever of the four        *)
(* neighbours that is.                                                     *)
(***************************************************************************)
HamUnalignedMovesToSuccessor ==
    (/\ hpc = "returned"
     /\ cycle[index] = curr_head
     /\ board[HamPrevHead(cycle, CyLen(board_size), index)] = values.board)
    => /\ haction \in PlannerActions
       /\ ApplyAction(board_size, curr_head, haction) =
              HamNextHead(cycle, CyLen(board_size), index)


(***************************************************************************)
(* Two threads calling move on one planning agent.  The agent's attributes *)
(* (the cycle, the board size) are shared; each call has its own board     *)
(* argument and its own frame of locals.  A thread takes one step of its   *)
(* call at a time, in any order with the other thread's steps.             *)
(***************************************************************************)
\* side of the Hamiltonian boards of the concurrent calls: 2 * ParHalfSize
ParHalfSize == 2

\* the while loop of _get_cycle_square from index k, sp s on
RECURSIVE CycleFill(_, _, _, _)
CycleFill(bs, k, s, cyc) ==
    IF k >= CyLen(bs) THEN cyc
    ELSE LET nx == CycleNextSp(bs, k, s)
         IN  CycleFill(bs, k + 1, nx, [cyc EXCEPT ![k] = nx])

\* _get_cycle_square, lines 740-773: the cycle the constructor stores
CycleSquare(bs) == CycleFill(bs, 0, 1 * bs + 1, ZeroCycle(bs))

\* variant: the locals of every call live in one place, as attributes of
\* the agent would
FrameOfAgent(t) == 1

\* the locals of a call live in the frame of that call
FrameOf(t) == t

\* HamiltonianCycleAgent.move, lines 777-780
HamMoveEnter(brd, vals) ==
    [NoLocals EXCEPT !.index = 0, !.curr_head = GridSum(brd, vals.head)]

\* HamiltonianCycleAgent.move, lines 781-809: one iteration of the search
\* loop, or the rest of the method once the loop breaks
HamMoveStep(bs, cyc, brd, loc) ==
    IF cyc[loc.index] = loc.curr_head
    THEN [pc |-> "returned", loc |-> loc,
          ret |-> HamMoveResult(bs, cyc, brd, loc.curr_head, loc.index)]
    ELSE [pc |-> "search",
          loc |-> [loc EXCEPT !.index = (loc.index + 1) % CyLen(bs)],
          ret |-> -1]

\* BreadthFirstSearchAgent._get_shortest_path, lines 968-978
BfsMoveEnter(bs, brd, vals) ==
    LET head == GridSum(brd, vals.head)
    IN  [NoLocals EXCEPT
            !.q = <<head>>,
            !.dist = [p \in Points(bs) |-> IF p = head THEN 0 ELSE Inf],
            !.vis = [p \in Points(bs) |-> IF p = head THEN 1 ELSE 0]]

\* BreadthFirstSearchAgent: one iteration of the search loop (lines
\* 979-1007), one of the backward loop (1008-1023), or lines 1033-1061 of
\* move for a board of three dimensions
BfsMoveStep(bs, vals, brd, pc, loc) ==
    LET food == GridSum(brd, vals.food)
    IN  IF pc = "search"
        THEN IF Len(loc.q) = 0
             THEN [pc |-> "recon", ret |-> -1,
                   loc |-> [loc EXCEPT !.path = <<food>>, !.curr = food]]
             ELSE CHOOSE res \in
                 {[pc |-> IF st.found THEN "recon" ELSE "search",
                   ret |-> -1,
                   loc |-> [loc EXCEPT
                      !.q = st.q, !.dist = st.dist, !.vis = st.vis,
                      !.found = st.found,
                      !.path = IF st.found THEN <<food>> ELSE @,
                      !.curr = IF st.found THEN food ELSE Head(loc.q)]] :
                  st \in {BfsVisitNeighbors(vals, brd, Head(loc.q),
                             BfsGetNeighbors(bs, vals, brd, Head(loc.q)), 1,
                             [q |-> Tail(loc.q), dist |-> loc.dist,
                              vis |-> loc.vis, found |-> FALSE])}} : TRUE
        ELSE IF pc = "recon"
        THEN IF loc.dist[loc.curr] = Inf
             THEN [pc |-> "pathret", ret |-> -1,
                   loc |-> [loc EXCEPT !.path = <<>>]]
             ELSE IF loc.dist[loc.curr] = 0
             THEN [pc |-> "pathret", ret |-> -1, loc |-> loc]
             ELSE LET n == BfsGetNeighbors(bs, vals, brd, loc.curr)
                      k == BfsFirstCloser(loc.dist, n, 1,
                                          loc.dist[loc.curr])
                  IN  IF k = 0
                      THEN [pc |-> "recon", ret |-> -1, loc |-> loc]
                      ELSE [pc |-> "recon", ret |-> -1,
                            loc |-> [loc EXCEPT !.path = Append(@, n[k]),
                                                !.curr = n[k]]]
        ELSE [pc |-> "returned", loc |-> loc,
              ret |-> BfsMoveAction(bs, GridSum(brd, vals.head), loc.path)]

MoveEnter(cls, bs, vals, brd) ==
    IF cls = "ham" THEN HamMoveEnter(brd, vals)
    ELSE BfsMoveEnter(bs, brd, vals)

MoveStep(cls, bs, cyc, vals, brd, pc, loc) ==
    IF cls = "ham" THEN HamMoveStep(bs, cyc, brd, loc)
    ELSE BfsMoveStep(bs, vals, brd, pc, loc)

\* the action of a call that runs from st to its return with no other
\* call on the agent
RECURSIVE MoveAlone(_, _, _, _, _, _)
MoveAlone(cls, bs, cyc, vals, brd, st) ==
    IF st.pc = "returned" THEN st.ret
    ELSE CHOOSE res \in
        {MoveAlone(cls, bs, cyc, vals, brd, nx) :
            nx \in {MoveStep(cls, bs, cyc, vals, brd, st.pc, st.loc)}} : TRUE

\* the boards the threads pass: for the Hamiltonian agent the head on any
\* cycle cell, its cycle predecessor free or body; for the breadth-first
\* agent the head in a corner and the food in another corner or absent
ParBoards(cls, bs, cyc, vals) ==
    IF cls = "ham"
    THEN {HamBoard(bs, vals, cyc[k], HamPrevHead(cyc, CyLen(bs), k),
                   vals[kind]) : k \in DOMAIN cyc, kind \in {"board", "snake"}}
    ELSE PairBoards(bs, vals) \cup
         {MakeBoard(bs, vals, bs + 1, {bs + 1}, {})}

InitPar ==
    /\ pagent \in {"ham", "bfs"}
    /\ board_size = IF pagent = "ham" THEN 2 * ParHalfSize ELSE BfsBoardSize
    /\ values \in ValueMaps
    /\ board = NoBoard
    /\ legal_moves = <<>>
    /\ perr = "none"
    /\ hpc = IF pagent = "ham" THEN "ready" ELSE "idle"
    /\ cycle = IF pagent = "ham" THEN CycleSquare(board_size) ELSE <<>>
    /\ index = 0
    /\ sp = 0
    /\ curr_head = 0
    /\ haction = -1
    /\ pcalls = [t \in Threads |-> NoPCall]
    /\ frames = [t \in Threads |-> NoLocals]
    /\ BfsIdle
    /\ DqnIdle
    /\ NormIdle
    /\ ConcIdle
    /\ BtIdle
    /\ GameIdle

\* some other thread is inside its call of move
OthersRunning(t) ==
    \E u \in Threads \ {t} : pcalls[u].pc \notin {"idle", "returned"}

\* thread t calls move(board, legal_moves, values)
ParMoveCall(t) ==
    /\ pcalls[t].pc = "idle"
    /\ \E brd \in ParBoards(pagent, board_size, cycle, values) :
       \E loc \in {MoveEnter(pagent, board_size, values, brd)} :
          /\ frames' = [frames EXCEPT ![FrameOf(t)] = loc]
          /\ pcalls' = [pcalls EXCEPT ![t] =
                [pc |-> "search", brd |-> brd, brd0 |-> brd, ret |-> -1,
                 alone |-> MoveAlone(pagent, board_size, cycle, values, brd,
                              [pc |-> "search", loc |-> loc, ret |-> -1]),
                 overlapped |-> FALSE]]
    /\ UNCHANGED <<pagent, notParVars>>

\* thread t runs the next step of its call
ParMoveStep(t) ==
    /\ pcalls[t].pc \notin {"idle", "returned"}
    /\ \E st \in {MoveStep(pagent, board_size, cycle, values, pcalls[t].brd,
                           pcalls[t].pc, frames[FrameOf(t)])} :
          /\ frames' = [frames EXCEPT ![FrameOf(t)] = st.loc]
          /\ pcalls' = [pcalls EXCEPT
                ![t].pc = st.pc,
                ![t].ret = st.ret,
                ![t].overlapped = (@ \/ OthersRunning(t))]
    /\ UNCHANGED <<pagent, notParVars>>

NextPar ==
    \/ \E t \in Threads : ParMoveCall(t)
    \/ \E t \in Threads : ParMoveStep(t)

SpecPar == InitPar /\ [][NextPar]_vars

BtHalfSize == 3

BtSizes == {2 * h : h \in 2 .. BtHalfSize}

\* self._start_point, line 732
StartPoint(bs) == 1 * bs + 1

\* HamiltonianCycleAgent._get_neighbors, lines 685-698
HamilGetNeighbors(bs, point) ==
    LET ok(q) == /\ 1 <= q \div bs /\ q \div bs <= bs - 2
                 /\ 1 <= q % bs /\ q % bs <= bs - 2
    IN  SelectSeq(NeighborCandidates(bs, point), ok)

\* variant: a dead end leaves the cell in the set
HamilBacktrackSetKeep(cs, cell) == cs

\* line 720: self._cycle_set.remove(self._cycle[self._index])
HamilBacktrackSet(cs, cell) == cs \ {cell}

\* lines 711-712: the first element of neighbors from the k-th on that is
\* not in the set; Len(n) + 1 when there is none
RECURSIVE HamilNextFree(_, _, _)
HamilNextFree(n, k, cs) ==
    IF k > Len(n) THEN k
    ELSE IF n[k] \notin cs THEN k
    ELSE HamilNextFree(n, k + 1, cs)

\* _get_cycle, lines 732-737, up to the call of _hamil_util at line 738
InitBt ==
    /\ board_size \in BtSizes
    /\ values = StandardValues
    /\ board = NoBoard
    /\ legal_moves = <<>>
    /\ perr = "none"
    /\ hpc = "idle"
    /\ cycle = [ZeroCycle(board_size) EXCEPT ![0] = StartPoint(board_size)]
    /\ index = 0
    /\ sp = 0
    /\ curr_head = 0
    /\ haction = -1
    /\ kpc = "call"
    /\ self_index = 0
    /\ cycle_set = {StartPoint(board_size)}
    /\ stack = <<>>
    /\ kret = FALSE
    /\ backtracks = 0
    /\ BfsIdle
    /\ DqnIdle
    /\ NormIdle
    /\ ConcIdle
    /\ ParIdle
    /\ GameIdle

\* _hamil_util is entered: lines 701-708; the call at the last index
\* returns at once
HamilCall ==
    /\ kpc = "call"
    /\ \E n \in {HamilGetNeighbors(board_size, cycle[self_index])} :
          IF self_index = CyLen(board_size) - 1
          THEN /\ kret' = (\E j \in DOMAIN n : n[j] = StartPoint(board_size))
               /\ kpc' = "return"
               /\ UNCHANGED stack
          ELSE /\ stack' = Append(stack, [neighbors |-> n, k |-> 1])
               /\ kpc' = "loop"
               /\ UNCHANGED kret
    /\ UNCHANGED <<self_index, cycle_set, backtracks, planVars, hamVars,
                   bfsVars, dqnVars, normVars, concVars, parVars, gameVars>>

\* the for loop of the frame on top, lines 710-715: the next neighbour not
\* in the set is appended and _hamil_util called; line 723 when there is
\* none left
HamilLoop ==
    /\ kpc = "loop"
    /\ \E top \in {stack[Len(stack)]} :
       \E j \in {HamilNextFree(top.neighbors, top.k, cycle_set)} :
          IF j > Len(top.neighbors)
          THEN /\ stack' = SubSeq(stack, 1, Len(stack) - 1)
               /\ kret' = FALSE
               /\ kpc' = "return"
               /\ UNCHANGED <<self_index, cycle, cycle_set>>
          ELSE /\ self_index' = self_index + 1
               /\ cycle' = [cycle EXCEPT ![self_index + 1] = top.neighbors[j]]
               /\ cycle_set' = cycle_set \cup {top.neighbors[j]}
               /\ stack' = [stack EXCEPT ![Len(stack)].k = j + 1]
               /\ kpc' = "call"
               /\ UNCHANGED kret
    /\ UNCHANGED <<backtracks, planVars, hpc, index, sp, curr_head, haction,
                   bfsVars, dqnVars, normVars, concVars, parVars, gameVars>>

\* a call has returned: to line 738 of _get_cycle when no frame is left,
\* else to lines 716-721 of the caller
HamilReturn ==
    /\ kpc = "return"
    /\ IF Len(stack) = 0
       THEN /\ kpc' = "done"
            /\ UNCHANGED <<self_index, cycle_set, stack, kret, backtracks>>
       ELSE IF kret
       THEN /\ stack' = SubSeq(stack, 1, Len(stack) - 1)
            /\ kpc' = "return"
            /\ UNCHANGED <<self_index, cycle_set, kret, backtracks>>
       ELSE /\ cycle_set' = HamilBacktrackSet(cycle_set, cycle[self_index])
            /\ self_index' = self_index - 1
            /\ backtracks' = backtracks + 1
            /\ kpc' = "loop"
            /\ UNCHANGED <<stack, kret>>
    /\ UNCHANGED <<planVars, hamVars, bfsVars, dqnVars, normVars, concVars,
                   parVars, gameVars>>

NextBt ==
    \/ HamilCall
    \/ HamilLoop
    \/ HamilReturn

SpecBt == InitBt /\ [][NextBt]_vars

\* the thread running the constructor keeps running
SpecBtFair == InitBt /\ [][NextBt]_vars /\ WF_vars(NextBt)

(***************************************************************************)
(* C22: at every call and every return of _hamil_util, _cycle_set is       *)
(* exactly the set of the cells _cycle[0] .. _cycle[_index], these cells   *)
(* are distinct interior cells, each adjacent to the one before, and       *)
(* _cycle[0] is the start cell (1,1); a call returns True only at index    *)
(* (board_size-2)^2 - 1 with the last cell adjacent to the start; and the  *)
(* search started by _get_cycle ends with True.                            *)
(***************************************************************************)
HamilSearchKeepsPathAndSucceeds ==
    /\ [](kpc \in {"call", "return", "done"} =>
            /\ cycle_set = {cycle[j] : j \in 0 .. self_index}
            /\ Cardinality(cycle_set) = self_index + 1
            /\ cycle_set \subseteq InteriorPoints(board_size)
            /\ \A j \in 1 .. self_index :
                  ManhattanAdjacent(board_size, cycle[j - 1], cycle[j])
            /\ cycle[0] = StartPoint(board_size))
    /\ []((kpc \in {"return", "done"} /\ kret) =>
            /\ self_index = CyLen(board_size) - 1
            /\ ManhattanAdjacent(board_size, cycle[self_index],
                                 StartPoint(board_size)))
    /\ <>(kpc = "done" /\ kret)

\* the search on the board of side 6 has ended after backing out of a dead
\* end
HamilSearchEndedAfterBacktrack ==
    /\ kpc = "done"
    /\ kret
    /\ board_size = 6
    /\ backtracks > 0


(***************************************************************************)
(* A game driven by HamiltonianCycleAgent.move: at each step the board is  *)
(* drawn from the snake's cells, move is called on it, and the action      *)
(* returned is applied to the head (0: column+1, 1: row-1, 2: column-1,    *)
(* 3: row+1) while the body follows over the cell the head has left.       *)
(***************************************************************************)
\* the boards of the games have side 4, 6, .., 2 * GameHalfSize
GameHalfSize == 4

GameSizes == {2 * h : h \in 2 .. GameHalfSize}

\* the place of a cell in the cycle: where the search loop of move stops
\* (lines 780-784)
CycleIndexOf(cyc, cell) ==
    CHOOSE k \in DOMAIN cyc :
        /\ cyc[k] = cell
        /\ \A j \in DOMAIN cyc : cyc[j] = cell => k <= j

\* the body of a snake of n cells behind the head at cycle place k, lying
\* on the cells the head would have come over
TrailingBody(cyc, cy_len, k, n) == [j \in 1 .. n |-> cyc[(k - j) % cy_len]]

SeqRange(q) == {q[j] : j \in DOMAIN q}

InitGame ==
    /\ board_size \in GameSizes
    /\ values \in ValueMaps
    /\ board = NoBoard
    /\ legal_moves = AllLegal
    /\ perr = "none"
    /\ hpc = "ready"
    /\ cycle = CycleSquare(board_size)
    /\ index = 0
    /\ sp = 0
    /\ curr_head = 0
    /\ haction = -1
    /\ ghead \in InteriorPoints(board_size)
    /\ \E n \in 0 .. MaxBody :
          gbody = TrailingBody(cycle, CyLen(board_size),
                               CycleIndexOf(cycle, ghead), n)
    /\ gprev = ghead
    /\ gstart = ghead
    /\ gmoves = 0
    /\ gvisited = {ghead}
    /\ BfsIdle
    /\ DqnIdle
    /\ NormIdle
    /\ ConcIdle
    /\ ParIdle
    /\ BtIdle

\* one call of move (lines 775-809) on the board of the moment, and the
\* displacement of the snake by the action returned; a head that is on no
\* cycle cell leaves move in its search loop
GameStep ==
    /\ gmoves < CyLen(board_size)
    /\ \E k \in DOMAIN cycle : cycle[k] = ghead
    /\ \E brd \in {MakeBoard(board_size, values, ghead, SeqRange(gbody), {})} :
       \E k \in {CycleIndexOf(cycle, ghead)} :
       \E act \in {HamMoveResult(board_size, cycle, brd, ghead, k)} :
          /\ act \in PlannerActions
          /\ board' = brd
          /\ curr_head' = ghead
          /\ index' = k
          /\ haction' = act
          /\ ghead' = ApplyAction(board_size, ghead, act)
          /\ gbody' = IF Len(gbody) = 0 THEN <<>>
                      ELSE <<ghead>> \o SubSeq(gbody, 1, Len(gbody) - 1)
          /\ gprev' = ghead
          /\ gmoves' = gmoves + 1
          /\ gvisited' = gvisited \cup {ApplyAction(board_size, ghead, act)}
    /\ UNCHANGED <<board_size, values, legal_moves, perr, hpc, cycle, sp,
                   gstart, bfsVars, dqnVars, normVars, concVars, parVars,
                   btVars>>

NextGame == GameStep

SpecGame == InitGame /\ [][NextGame]_vars

(***************************************************************************)
(* C23: in a game started with the head on any interior cell, with a       *)
(* snake of one cell or more, every move carries the head onto the cycle   *)
(* successor of the cell it was on, so the head is never on a border       *)
(* cell, and after (board_size-2)^2 moves it has been on every interior    *)
(* cell and is back on the cell it started from.                           *)
(***************************************************************************)
HamGameFollowsCycle ==
    /\ IsInterior(board_size, ghead)
    /\ gmoves > 0 =>
          \E k \in DOMAIN cycle :
              /\ cycle[k] = gprev
              /\ ghead = HamNextHead(cycle, CyLen(board_size), k)
    /\ gmoves = CyLen(board_size) =>
          /\ ghead = gstart
          /\ gvisited = InteriorPoints(board_size)

====
